---- MODULE Spec2Model ----
(***************************************************************************)
(* Outlook Web automation (outlook-web): the context-menu interaction      *)
(* state machine of Client::add_label / remove_label, the key-press        *)
(* operations archive / trash, the message-list operations, the            *)
(* per-message operations, the Message record's deserialisation,           *)
(* connect_or_start_browser, wait_for_message's poll loop and the          *)
(* message-list field extraction.                                          *)
(*                                                                         *)
(* The page (the browser tab driven through the debugging protocol) is the *)
(* environment: the client evaluates one script at a time against it, and  *)
(* the page answers from its DOM.  Texts are sequences of tokens (words    *)
(* and blanks), so that endsWith and trim are computed, not assumed.       *)
(***************************************************************************)
EXTENDS Integers, Sequences, FiniteSets, TLC

VARIABLES
  elem,        \* page: the list element with data-convid = id of the running call:
               \* "absent", "hidden" (height 0) or "visible"
  cats,        \* page: per message, the set of category names it carries
  categories,  \* page: the texts of the category items of the Categorize submenu
  menu,        \* page: the open context menu (target 0 = no [role="menu"] in the DOM)
  pc,          \* client: position inside the running operation
  op,          \* client: the running operation
  id,          \* client: its message id argument
  label,       \* client: its label argument
  trace,       \* history: the page interactions of the running call, in order
  res,         \* client: the operation's result ("none" while running)
  preSet,      \* history: cats[id] when the call started
  last,        \* history: the previous call, when it was an add_label that returned Ok
  lpc,         \* list: position inside the running list operation
  lfn,         \* list: which list function runs
  lmax,        \* list: its max argument
  ljson,       \* list: the CLI's --json flag
  folder,      \* list page: what window.location.href shows
  items,       \* list page: the data-convid values of the [data-convid] elements, in document order
  lraw,        \* list: the value the scraping script's evaluation handed back
  lres,        \* list: the returned Result
  lout,        \* list: the messages the CLI printed
  cpc,         \* connect: position inside connect_or_start_browser
  attempt,     \* connect: the retry loop's variable
  running,     \* machine: what is_browser_running answers when it is asked
  cres,        \* connect: the returned Result ("none" while running)
  pane,        \* page: the message the reading pane shows (0 = none)
  polls,       \* wait_for_message: the poll loop's variable i
  minput,      \* the string handed to serde_json::from_str::<Message>
  mparsed,     \* its result
  aria,        \* extraction: the list item's aria-label attribute
  badges,      \* extraction: the known labels found in the item's buttons and spans
  fields       \* extraction: the from / subject / preview the script computed

pageVars == <<elem, cats, categories, menu>>
clientVars == <<pc, op, id, label, trace, res, preSet, last>>
listVars == <<lpc, lfn, lmax, ljson, folder, items, lraw, lres, lout>>
connVars == <<cpc, attempt, running, cres>>
msgVars == <<pane, polls, minput, mparsed>>
extractVars == <<aria, badges, fields>>
vars == <<elem, cats, categories, menu, pc, op, id, label, trace, res, preSet, last,
          lpc, lfn, lmax, ljson, folder, items, lraw, lres, lout,
          cpc, attempt, running, cres, pane, polls, minput, mparsed,
          aria, badges, fields>>

----------------------------------------------------------------------------
(* Bounds *)

NumMsgs == 2
Msgs == 1..NumMsgs

(* Texts *)

Red == <<"Red">>
Green == <<"Green">>
DarkRed == <<"Dark", " ", "Red">>
RedBlank == <<"Red", " ">>

\* the context menu's own items
Delete == <<"Delete">>
Categorize == <<"Categorize">>
ManageCategories == <<"Manage", " ", "categories">>

\* the label arguments: two category names and the text of another menu item
LabelArgs == {Red, Green, Delete}

\* the Categorize submenus the account may have (its category list)
CategoryMenus == { <<>>, <<Red, Green>>, <<DarkRed, Red>>, <<RedBlank>> }

RECURSIVE TrimEnd(_)
TrimEnd(t) == IF t # <<>> /\ t[Len(t)] = " " THEN TrimEnd(SubSeq(t, 1, Len(t) - 1)) ELSE t

RECURSIVE TrimStart(_)
TrimStart(t) == IF t # <<>> /\ t[1] = " " THEN TrimStart(Tail(t)) ELSE t

\* JavaScript String.prototype.trim
Trim(t) == TrimStart(TrimEnd(t))

\* JavaScript String.prototype.endsWith
EndsWith(t, s) == Len(s) <= Len(t) /\ SubSeq(t, Len(t) - Len(s) + 1, Len(t)) = s

\* text.toLowerCase().includes('categor')
IncludesCategor(t) == \E i \in 1..Len(t) : t[i] \in {"Categorize", "categories"}

----------------------------------------------------------------------------
(* The page's DOM *)

ElemStates == {"absent", "hidden", "visible"}

NoMenu == [target |-> 0, cat |-> FALSE, sub |-> FALSE]

Item(r, t) == [role |-> r, text |-> t]

\* the elements with role menuitem / menuitemcheckbox, in document order:
\* the context menu's own items, then the items of the open Categorize submenu
MenuItems ==
  IF menu.target = 0 THEN <<>>
  ELSE <<Item("menuitem", Delete)>>
       \o (IF menu.cat THEN <<Item("menuitem", Categorize)>> ELSE <<>>)
       \o (IF menu.sub
           THEN [i \in 1..Len(categories) |-> Item("menuitemcheckbox", categories[i])]
                \o <<Item("menuitem", ManageCategories)>>
           ELSE <<>>)

\* index of the first item a script's for-loop stops at, given the indices of
\* the items that pass its test; 0 when the loop runs to the end
FirstItem(S) == IF S = {} THEN 0 ELSE CHOOSE i \in S : \A j \in S : i <= j

is_context_menu_open == menu.target # 0

is_category_visible(l) == \E i \in 1..Len(MenuItems) : EndsWith(MenuItems[i].text, l)

IsCategorizeItem(it) == it.role = "menuitem" /\ IncludesCategor(it.text)

is_categorize_button_visible == \E i \in 1..Len(MenuItems) : IsCategorizeItem(MenuItems[i])

get_message_position == elem # "absent"

\* mutant of ClickCategoryTarget: the loop stops at the first category item
ClickFirstCategory(l) ==
  FirstItem({i \in 1..Len(MenuItems) : MenuItems[i].role = "menuitemcheckbox"})

\* the item click_category's loop clicks (0: none, status category_not_found)
ClickCategoryTarget(l) ==
  FirstItem({i \in 1..Len(MenuItems) : EndsWith(Trim(MenuItems[i].text), l)})

\* the script's return value, a JSON string
ClickCategoryScript(l) ==
  IF ClickCategoryTarget(l) # 0
  THEN [kind |-> "json", status |-> "success"]
  ELSE [kind |-> "json", status |-> "category_not_found"]

\* the Rust side of click_category: decode, parse, fall back to the raw text
ClickCategoryStatus(raw) ==
  LET status_json == IF raw.kind = "nonstring" THEN "" ELSE
                     IF raw.kind = "json" THEN "{json}" ELSE raw.status
      parsed == IF raw.kind = "json" THEN raw.status ELSE ""
  IN IF parsed = "" THEN status_json ELSE parsed

\* clicking a category item toggles that category on the message the menu belongs to
Toggle(S, n) == IF n \in S THEN S \ {n} ELSE S \cup {n}

----------------------------------------------------------------------------
(* The client *)

Ops == {"add_label", "remove_label", "archive", "trash"}

NoLast == [id |-> 0, label |-> <<>>, pre |-> {}]

Ev(e, ok, text, target) == [ev |-> e, ok |-> ok, text |-> text, target |-> target]

Step(e, ok) == Append(trace, Ev(e, ok, <<>>, 0))

Fail(msg) == pc' = "done" /\ res' = msg

\* no list item is being taken apart
NoFields == [kind |-> "none"]

ExtractIdle == aria = <<>> /\ badges = <<>> /\ fields = NoFields

\* connect_or_start_browser has not been called
ConnIdle ==
  /\ cpc = "idle" /\ attempt = 0 /\ running = FALSE /\ cres = "none"

\* nothing is shown in the reading pane, no poll loop runs, nothing is parsed
NoMessage == [kind |-> "none"]

MsgIdle ==
  /\ pane = 0 /\ polls = 0 /\ minput = NoMessage /\ mparsed = NoMessage

Init ==
  /\ elem = "absent"
  /\ cats = [m \in Msgs |-> {}]
  /\ categories \in CategoryMenus
  /\ menu = NoMenu
  /\ pc = "idle" /\ op = "none" /\ id = 0 /\ label = <<>>
  /\ trace = <<>> /\ res = "none" /\ preSet = {} /\ last = NoLast
  /\ lpc = "idle" /\ lfn = "none" /\ lmax = 0 /\ ljson = FALSE
  /\ folder = "inbox" /\ items = <<>>
  /\ lraw = [kind |-> "none", msgs |-> <<>>]
  /\ lres = [ok |-> FALSE, msgs |-> <<>>, err |-> "none"] /\ lout = <<>>
  /\ ExtractIdle /\ ConnIdle /\ MsgIdle

\* a command starts: one of the Client's operations is called
Begin ==
  /\ pc = "idle"
  /\ \E o \in Ops, m \in Msgs, l \in LabelArgs :
       /\ op' = o /\ id' = m
       /\ label' = IF o \in {"add_label", "remove_label"} THEN l ELSE <<>>
       /\ preSet' = cats[m]
  /\ elem' \in ElemStates
  /\ pc' = "connect" /\ trace' = <<>> /\ res' = "none"
  /\ UNCHANGED <<extractVars, cats, categories, menu, last, listVars, connVars, msgVars>>

\* connect_or_start_browser(port)?, find_outlook_page(&browser)?
Connect ==
  /\ pc = "connect"
  /\ \E ok \in BOOLEAN :
       IF ok
       THEN pc' = (IF op \in {"add_label", "remove_label"} THEN "wait" ELSE "click_msg")
            /\ res' = res
       ELSE Fail("Err: connect")
  /\ UNCHANGED <<extractVars, pageVars, op, id, label, trace, preSet, last, listVars, connVars, msgVars>>

\* mutant of WaitForMessage: the result of wait_for_message is ignored
WaitForMessageIgnored ==
  /\ pc = "wait"
  /\ \E e \in ElemStates :
       /\ elem' = e
       /\ trace' = Step("wait_for_message", e = "visible")
       /\ pc' = "menu_check1" /\ res' = res
  /\ UNCHANGED <<extractVars, cats, categories, menu, op, id, label, preSet, last, listVars, connVars, msgVars>>

\* menu::wait_for_message: true when the element is there with height > 0 at one of
\* its polls; e is the element's state at the poll that decides
WaitForMessage ==
  /\ pc = "wait"
  /\ \E e \in ElemStates :
       /\ elem' = e
       /\ trace' = Step("wait_for_message", e = "visible")
       /\ IF e = "visible"
          THEN pc' = "menu_check1" /\ res' = res
          ELSE Fail("Err: Message not found or not visible")
  /\ UNCHANGED <<extractVars, cats, categories, menu, op, id, label, preSet, last, listVars, connVars, msgVars>>

\* Step 1: if !menu::is_context_menu_open
MenuCheck1 ==
  /\ pc = "menu_check1"
  /\ trace' = Step("is_context_menu_open", is_context_menu_open)
  /\ pc' = IF is_context_menu_open THEN "cat_check1" ELSE "get_pos"
  /\ UNCHANGED <<extractVars, pageVars, op, id, label, res, preSet, last, listVars, connVars, msgVars>>

\* menu::get_message_position(...).ok_or_else("Message not found")
GetPosition ==
  /\ pc = "get_pos"
  /\ trace' = Step("get_message_position", get_message_position)
  /\ IF get_message_position
     THEN pc' = "right_click" /\ res' = res
     ELSE Fail("Err: Message not found")
  /\ UNCHANGED <<extractVars, pageVars, op, id, label, preSet, last, listVars, connVars, msgVars>>

\* menu::right_click at the message's position; the page opens the message's
\* context menu, with or without a Categorize item, or opens nothing
RightClick ==
  /\ pc = "right_click"
  /\ trace' = Append(trace, Ev("right_click", TRUE, <<>>, id))
  /\ \E opened \in BOOLEAN, hasCat \in BOOLEAN :
       menu' = IF opened /\ elem = "visible"
               THEN [target |-> id, cat |-> hasCat, sub |-> FALSE]
               ELSE menu
  /\ pc' = "menu_check2"
  /\ UNCHANGED <<extractVars, elem, cats, categories, op, id, label, res, preSet, last, listVars, connVars, msgVars>>

\* if !menu::is_context_menu_open { bail!("Context menu didn't open") }
MenuCheck2 ==
  /\ pc = "menu_check2"
  /\ trace' = Step("is_context_menu_open", is_context_menu_open)
  /\ IF is_context_menu_open
     THEN pc' = "cat_check1" /\ res' = res
     ELSE Fail("Err: Context menu didn't open")
  /\ UNCHANGED <<extractVars, pageVars, op, id, label, preSet, last, listVars, connVars, msgVars>>

\* Step 2: if !menu::is_category_visible(label)
CatCheck1 ==
  /\ pc = "cat_check1"
  /\ trace' = Step("is_category_visible", is_category_visible(label))
  /\ pc' = IF is_category_visible(label) THEN "click_category" ELSE "btn_check"
  /\ UNCHANGED <<extractVars, pageVars, op, id, label, res, preSet, last, listVars, connVars, msgVars>>

\* if !menu::is_categorize_button_visible { bail!("Categorize button not found") }
ButtonCheck ==
  /\ pc = "btn_check"
  /\ trace' = Step("is_categorize_button_visible", is_categorize_button_visible)
  /\ IF is_categorize_button_visible
     THEN pc' = "click_categorize" /\ res' = res
     ELSE Fail("Err: Categorize button not found")
  /\ UNCHANGED <<extractVars, pageVars, op, id, label, preSet, last, listVars, connVars, msgVars>>

\* if !menu::click_categorize { bail!("Failed to click Categorize") }; the page
\* opens the submenu or does not
ClickCategorize ==
  /\ pc = "click_categorize"
  /\ LET i == FirstItem({k \in 1..Len(MenuItems) : IsCategorizeItem(MenuItems[k])}) IN
       IF i # 0
       THEN /\ trace' = Append(trace, Ev("click_categorize", TRUE, MenuItems[i].text, menu.target))
            /\ \E opens \in BOOLEAN : menu' = [menu EXCEPT !.sub = opens]
            /\ pc' = "cat_check2" /\ res' = res
       ELSE /\ trace' = Step("click_categorize", FALSE)
            /\ menu' = menu
            /\ Fail("Err: Failed to click Categorize")
  /\ UNCHANGED <<extractVars, elem, cats, categories, op, id, label, preSet, last, listVars, connVars, msgVars>>

\* mutant of CatCheck2: the second visibility check does not bail
CatCheck2NoBail ==
  /\ pc = "cat_check2"
  /\ trace' = Step("is_category_visible", is_category_visible(label))
  /\ pc' = "click_category" /\ res' = res
  /\ UNCHANGED <<extractVars, pageVars, op, id, label, preSet, last, listVars, connVars, msgVars>>

\* if !menu::is_category_visible(label) { bail!("Category submenu didn't open") }
CatCheck2 ==
  /\ pc = "cat_check2"
  /\ trace' = Step("is_category_visible", is_category_visible(label))
  /\ IF is_category_visible(label)
     THEN pc' = "click_category" /\ res' = res
     ELSE Fail("Err: Category submenu didn't open")
  /\ UNCHANGED <<extractVars, pageVars, op, id, label, preSet, last, listVars, connVars, msgVars>>

\* mutant of AddLabelResult: only the catch-all arm is an error
AddLabelResultLenient(status) ==
  IF status \in {"success", "category_not_found"} THEN "Ok"
  ELSE "Err: Failed to add label"

\* the result add_label makes of click_category's status
AddLabelResult(status) ==
  IF status = "success" THEN "Ok"
  ELSE IF status = "category_not_found" THEN "Err: Category not found"
  ELSE "Err: Failed to add label"

\* Step 3: menu::click_category(label) and the match on its status; a clicked
\* category item is toggled on the menu's message, and the menu closes
ClickCategory ==
  /\ pc = "click_category"
  /\ LET i == ClickCategoryTarget(label)
         status == ClickCategoryStatus(ClickCategoryScript(label))
     IN /\ IF i # 0
           THEN /\ trace' = Append(trace, Ev("click_category", TRUE, MenuItems[i].text, menu.target))
                /\ cats' = IF MenuItems[i].role = "menuitemcheckbox"
                           THEN [cats EXCEPT ![menu.target] = Toggle(@, Trim(MenuItems[i].text))]
                           ELSE cats
                /\ menu' = NoMenu
           ELSE /\ trace' = Step("click_category", FALSE)
                /\ UNCHANGED <<cats, menu>>
        /\ res' = AddLabelResult(status)
  /\ pc' = "done"
  /\ UNCHANGED <<extractVars, elem, categories, op, id, label, preSet, last, listVars, connVars, msgVars>>

\* mutant of ClickMessage: the script's false is not checked
ClickMessageUnchecked ==
  /\ pc = "click_msg"
  /\ trace' = Append(trace, Ev("click_message", elem # "absent", <<>>, id))
  /\ pc' = "press_key" /\ res' = res
  /\ UNCHANGED <<extractVars, pageVars, op, id, label, preSet, last, listVars, connVars, msgVars>>

\* archive / trash: the click script on [data-convid="id"]
ClickMessage ==
  /\ pc = "click_msg"
  /\ trace' = Append(trace, Ev("click_message", elem # "absent", <<>>, id))
  /\ IF elem # "absent"
     THEN pc' = "press_key" /\ res' = res
     ELSE Fail("Err: Message not found")
  /\ UNCHANGED <<extractVars, pageVars, op, id, label, preSet, last, listVars, connVars, msgVars>>

KeyOf(o) == IF o = "archive" THEN <<"e">> ELSE <<"Delete">>

\* archive / trash: dispatch the keydown event, then Ok(())
PressKey ==
  /\ pc = "press_key"
  /\ trace' = Append(trace, Ev("key", TRUE, KeyOf(op), 0))
  /\ pc' = "done" /\ res' = "Ok"
  /\ UNCHANGED <<extractVars, pageVars, op, id, label, preSet, last, listVars, connVars, msgVars>>

\* the call returns to its caller
Return ==
  /\ pc = "done"
  /\ last' = IF op = "add_label" /\ res = "Ok"
             THEN [id |-> id, label |-> label, pre |-> preSet]
             ELSE NoLast
  /\ pc' = "idle" /\ op' = "none" /\ id' = 0 /\ label' = <<>>
  /\ trace' = <<>> /\ res' = "none" /\ preSet' = {} /\ elem' = "absent"
  /\ UNCHANGED <<extractVars, cats, categories, menu, listVars, connVars, msgVars>>

\* the page changes on its own between two evaluations of a call: the message's
\* list element is rendered or removed before a script that looks for it, or
\* the open menu is dismissed
PageChange ==
  /\ pc \notin {"idle", "done"}
  /\ \/ /\ pc \in {"menu_check1", "get_pos", "right_click", "click_msg"}
        /\ \E e \in ElemStates : elem' = e /\ menu' = menu
     \/ menu.target # 0 /\ menu' = NoMenu /\ elem' = elem
  /\ UNCHANGED <<extractVars, cats, categories, clientVars, listVars, connVars, msgVars>>

Next ==
  \/ Begin \/ Connect \/ WaitForMessage \/ MenuCheck1 \/ GetPosition \/ RightClick
  \/ MenuCheck2 \/ CatCheck1 \/ ButtonCheck \/ ClickCategorize \/ CatCheck2
  \/ ClickCategory \/ ClickMessage \/ PressKey \/ Return \/ PageChange

Spec == Init /\ [][Next]_vars

----------------------------------------------------------------------------
(* The message-list operations *)

MaxItems == 3
MaxMax == 3

\* data-convid attribute values; "" is an element whose attribute is empty
ConvIds == {"", "a", "b"}

ItemLists == UNION {[1..n -> ConvIds] : n \in 0..MaxItems}

\* what window.location.href shows: the inbox, the junk folder, another mail
\* folder, or an Outlook page that is not under /mail/N/
Folders == {"inbox", "junkemail", "other", "nomail"}

ListFns == {"Client::list_messages", "Client::list_spam", "list::list_messages",
            "list::list_spam", "main::list_messages"}

LibraryListFns == ListFns \ {"main::list_messages"}

NoRaw == [kind |-> "none", msgs |-> <<>>]

NoResult == [ok |-> FALSE, msgs |-> <<>>, err |-> "none"]

Ok(ms) == [ok |-> TRUE, msgs |-> ms, err |-> ""]

Err(e) == [ok |-> FALSE, msgs |-> <<>>, err |-> e]

Min(a, b) == IF a <= b THEN a ELSE b

\* the scraping script: one message per [data-convid] element whose id is not
\* empty, in document order; "at" stands for the fields read off the element
ScrapeScript(its) ==
  LET all == [i \in 1..Len(its) |-> [id |-> its[i], at |-> i]]
      HasId(m) == m.id # ""
  IN SelectSeq(all, HasId)

\* result.into_value::<String>().unwrap_or_default(), then
\* serde_json::from_str(..).unwrap_or_default()
ParseMessages(raw) == IF raw.kind = "array" THEN raw.msgs ELSE <<>>

\* mutant of Truncate: one element too many is kept
TruncateOneMore(ms, n) == SubSeq(ms, 1, Min(n + 1, Len(ms)))

\* Vec::truncate(max as usize)
Truncate(ms, n) == SubSeq(ms, 1, Min(n, Len(ms)))

\* the nav script's return value for each function
NavStatus(fn, f) ==
  IF fn \in {"Client::list_messages", "list::list_messages"}
  THEN (IF f = "inbox" THEN "already" ELSE IF f = "nomail" THEN "already" ELSE "navigating")
  ELSE IF fn = "Client::list_spam"
  THEN (IF f = "nomail" THEN "url_parse_failed" ELSE "navigating")
  ELSE (IF f = "junkemail" THEN "already" ELSE IF f = "nomail" THEN "failed" ELSE "navigating")

NavTarget(fn) ==
  IF fn \in {"Client::list_messages", "list::list_messages"} THEN "inbox" ELSE "junkemail"

\* what the CLI prints: everything with --json, else at most max lines
CliOutput(parsed, max, json) ==
  IF json THEN parsed
  ELSE IF parsed = <<>> THEN <<>>
  ELSE Truncate(parsed, max)

InitList ==
  /\ elem = "absent"
  /\ cats = [m \in Msgs |-> {}]
  /\ categories = <<>>
  /\ menu = NoMenu
  /\ pc = "idle" /\ op = "none" /\ id = 0 /\ label = <<>>
  /\ trace = <<>> /\ res = "none" /\ preSet = {} /\ last = NoLast
  /\ lpc = "idle" /\ lfn = "none" /\ lmax = 0 /\ ljson = FALSE
  /\ folder \in Folders /\ items \in ItemLists
  /\ lraw = NoRaw /\ lres = NoResult /\ lout = <<>>
  /\ ExtractIdle /\ ConnIdle /\ MsgIdle

\* a list function is called (the CLI's with its --json flag)
ListBegin ==
  /\ lpc = "idle"
  /\ \E fn \in ListFns, n \in 0..MaxMax, j \in BOOLEAN :
       /\ lfn' = fn /\ lmax' = n
       /\ ljson' = (j /\ fn = "main::list_messages")
  /\ lpc' = "connect"
  /\ lraw' = NoRaw /\ lres' = NoResult /\ lout' = <<>>
  /\ UNCHANGED <<extractVars, pageVars, clientVars, folder, items, connVars, msgVars>>

\* connect_or_start_browser / connect_browser, find_outlook_page
ListConnect ==
  /\ lpc = "connect"
  /\ \E ok \in BOOLEAN :
       IF ok
       THEN lpc' = (IF lfn = "main::list_messages" THEN "scrape" ELSE "navigate")
            /\ lres' = lres
       ELSE lpc' = "done" /\ lres' = Err("connect")
  /\ UNCHANGED <<extractVars, pageVars, clientVars, lfn, lmax, ljson, folder, items, lraw, lout, connVars, msgVars>>

\* the navigation script and the 2 s sleep: when it navigates, the page shows the
\* target folder's list after the sleep, or is still showing the old one
ListNavigate ==
  /\ lpc = "navigate"
  /\ LET st == NavStatus(lfn, folder) IN
       IF st \in {"url_parse_failed", "failed"}
       THEN /\ lpc' = "done" /\ lres' = Err("Failed to parse Outlook URL for navigation")
            /\ UNCHANGED <<folder, items>>
       ELSE /\ lpc' = "scrape" /\ lres' = lres
            /\ IF st = "navigating"
               THEN \E loaded \in BOOLEAN, its \in ItemLists :
                      IF loaded THEN folder' = NavTarget(lfn) /\ items' = its
                      ELSE UNCHANGED <<folder, items>>
               ELSE UNCHANGED <<folder, items>>
  /\ UNCHANGED <<extractVars, pageVars, clientVars, lfn, lmax, ljson, lraw, lout, connVars, msgVars>>

\* page.evaluate(script), parse, truncate, Ok(parsed); the CLI prints instead.
\* The evaluation hands back the script's JSON string, or a value that is not a
\* string, or a string that is not a JSON array of messages
ListScrape ==
  /\ lpc = "scrape"
  /\ \E k \in {"array", "nonstring", "badjson"} :
       /\ lraw' = [kind |-> k, msgs |-> IF k = "array" THEN ScrapeScript(items) ELSE <<>>]
       /\ LET parsed == ParseMessages(lraw') IN
            IF lfn = "main::list_messages"
            THEN lout' = CliOutput(parsed, lmax, ljson) /\ lres' = Ok(<<>>)
            ELSE lout' = lout /\ lres' = Ok(Truncate(parsed, lmax))
  /\ lpc' = "done"
  /\ UNCHANGED <<extractVars, pageVars, clientVars, lfn, lmax, ljson, folder, items, connVars, msgVars>>

\* the list call returns
ListReturn ==
  /\ lpc = "done"
  /\ lpc' = "idle" /\ lfn' = "none" /\ lmax' = 0 /\ ljson' = FALSE
  /\ lraw' = NoRaw /\ lres' = NoResult /\ lout' = <<>>
  /\ UNCHANGED <<extractVars, pageVars, clientVars, folder, items, connVars, msgVars>>

NextList == ListBegin \/ ListConnect \/ ListNavigate \/ ListScrape \/ ListReturn

SpecList == InitList /\ [][NextList]_vars

----------------------------------------------------------------------------
(* Properties of add_label / remove_label *)

LabelOps == {"add_label", "remove_label"}

Happened(e, ok) == {i \in 1..Len(trace) : trace[i].ev = e /\ trace[i].ok = ok}

Before(i, e) == \E j \in Happened(e, TRUE) : j < i

\* a verification of add_label that failed: the checks whose failure bails
FailedVerification(i) ==
  \/ trace[i].ev = "is_context_menu_open" /\ ~trace[i].ok /\ Before(i, "right_click")
  \/ trace[i].ev = "is_categorize_button_visible" /\ ~trace[i].ok
  \/ trace[i].ev = "click_categorize" /\ ~trace[i].ok
  \/ trace[i].ev = "is_category_visible" /\ ~trace[i].ok /\ Before(i, "click_categorize")

\* the texts of the items the context menu and its Categorize submenu can show
AllItemTexts == {categories[i] : i \in 1..Len(categories)} \cup {Delete, Categorize, ManageCategories}

\* no item of the menu has a trimmed text that ends with the label
LabelAbsent == \A t \in AllItemTexts : ~EndsWith(Trim(t), label)

\* C1: within one call of add_label, the right-click comes only after
\* wait_for_message returned true, the click on Categorize only after
\* is_context_menu_open returned true, the click on a category item only after
\* is_category_visible(label) returned true, and the clicks keep their order
C1_StepsInOrder ==
  op \in LabelOps =>
    \A i \in 1..Len(trace) :
      /\ trace[i].ev = "right_click" => Before(i, "wait_for_message")
      /\ (trace[i].ev = "click_categorize" /\ trace[i].ok) =>
            /\ Before(i, "wait_for_message")
            /\ Before(i, "is_context_menu_open")
            /\ \A j \in Happened("right_click", TRUE) : j < i
      /\ (trace[i].ev = "click_category" /\ trace[i].ok) =>
            /\ Before(i, "wait_for_message")
            /\ Before(i, "is_context_menu_open")
            /\ Before(i, "is_category_visible")
            /\ \A j \in Happened("right_click", TRUE) \cup Happened("click_categorize", TRUE) : j < i

\* C1 witness: a call that right-clicked, clicked Categorize and clicked the category
C1_Witness ==
  /\ pc = "done" /\ op = "add_label" /\ res = "Ok"
  /\ Happened("right_click", TRUE) # {}
  /\ Happened("click_categorize", TRUE) # {}
  /\ Happened("click_category", TRUE) # {}

C3_BailOnFailedVerification ==
  op \in LabelOps =>
    \A i \in 1..Len(trace) :
      FailedVerification(i) =>
        /\ i = Len(trace)
        /\ pc = "done"
        /\ res \in {"Err: Context menu didn't open", "Err: Categorize button not found",
                    "Err: Failed to click Categorize", "Err: Category submenu didn't open"}

\* C3 witness: the submenu check after the click on Categorize failed
C3_Witness ==
  /\ pc = "done" /\ op = "add_label" /\ res = "Err: Category submenu didn't open"
  /\ Happened("click_categorize", TRUE) # {}
  /\ FailedVerification(Len(trace))

\* C4 as claimed: add_label with a label absent from the opened Categorize
\* submenu ends with the category created and applied
C4_CreatesMissingCategory ==
  (pc = "done" /\ op = "add_label" /\ menu.sub /\ LabelAbsent
     /\ Happened("click_categorize", TRUE) # {})
    => (res = "Ok" /\ label \in cats[id])

\* C4 amended: add_label never creates a category.  With a label that no item
\* of the menu ends with, the call is an error, clicks no item for the label and
\* leaves the message's categories as they were (with the submenu opened and
\* still open: "Category submenu didn't open"); and when it returns Ok, the item
\* it clicked is an existing menu item whose trimmed text ends with the label
C4_ClicksExistingNeverCreates ==
  (pc = "done" /\ op \in LabelOps) =>
    /\ LabelAbsent =>
         /\ res # "Ok"
         /\ Happened("click_category", TRUE) = {}
         /\ cats[id] = preSet
         /\ (menu.sub /\ Happened("click_categorize", TRUE) # {})
              => res = "Err: Category submenu didn't open"
    /\ res = "Ok" =>
         \E t \in AllItemTexts :
           /\ t = trace[Len(trace)].text
           /\ EndsWith(Trim(t), label)

\* C4 witness: the submenu was opened, the label is not in it, the call failed
C4_Witness ==
  /\ pc = "done" /\ op = "add_label" /\ menu.sub /\ LabelAbsent
  /\ Happened("click_categorize", TRUE) # {}
  /\ res = "Err: Category submenu didn't open"
  /\ categories # <<>>

\* C5 as claimed: after add_label returns Ok the message carries the label, and
\* after remove_label returns Ok it does not (stated for the calls that clicked
\* the category named label in the menu of message id)
C5_AddAppliesRemoveRemoves ==
  (pc = "done" /\ res = "Ok" /\ op \in LabelOps
     /\ Trim(trace[Len(trace)].text) = label /\ trace[Len(trace)].target = id
     /\ \E i \in 1..Len(categories) : categories[i] = trace[Len(trace)].text)
    => /\ op = "add_label" => label \in cats[id]
       /\ op = "remove_label" => label \notin cats[id]

\* C6 as claimed: add_label followed by remove_label with the same id and label,
\* both Ok, leaves the message's category set as it was before the pair
C6_AddThenRemoveRestores ==
  (pc = "done" /\ op = "remove_label" /\ res = "Ok"
     /\ last.id = id /\ last.label = label)
    => cats[id] = last.pre

----------------------------------------------------------------------------
(* Properties of archive / trash *)

\* C10: the key event ('e' for archive, 'Delete' for trash) directly follows a
\* successful click on the element; when the element does not exist the call
\* returns "Message not found" and no key event is dispatched
C10_KeyOnlyAfterClick ==
  op \in {"archive", "trash"} =>
    /\ \A i \in 1..Len(trace) :
         trace[i].ev = "key" =>
           /\ i > 1
           /\ trace[i - 1].ev = "click_message" /\ trace[i - 1].ok
           /\ trace[i - 1].target = id
           /\ trace[i].text = (IF op = "archive" THEN <<"e">> ELSE <<"Delete">>)
    /\ (pc = "done" /\ Happened("click_message", FALSE) # {}) =>
         /\ res = "Err: Message not found"
         /\ elem = "absent"
         /\ \A i \in 1..Len(trace) : trace[i].ev # "key"
    /\ (pc = "done" /\ res = "Ok") => trace[Len(trace)].ev = "key"

\* C10 witness: trash found no element and returned the error
C10_Witness ==
  /\ pc = "done" /\ op = "trash" /\ res = "Err: Message not found"
  /\ elem = "absent" /\ Happened("click_message", FALSE) # {}

----------------------------------------------------------------------------
(* Properties of the list operations *)

\* positions of the elements whose data-convid is not empty
WithId == {i \in 1..Len(items) : items[i] # ""}

\* the k-th such position in document order
KthWithId(k) == CHOOSE i \in WithId : Cardinality({j \in WithId : j <= i}) = k

\* C7: the library's list functions return at most max messages: the first
\* min(max, n) of the n scraped elements with a non-empty data-convid, in
\* document order
C7_FirstMaxInOrder ==
  (lpc = "done" /\ lfn \in LibraryListFns /\ lres.ok) =>
    /\ Len(lres.msgs) <= lmax
    /\ lraw.kind = "array" =>
         /\ Len(lres.msgs) = Min(lmax, Cardinality(WithId))
         /\ \A k \in 1..Len(lres.msgs) :
              /\ lres.msgs[k].at = KthWithId(k)
              /\ lres.msgs[k].id = items[KthWithId(k)]

\* C7 witness: more elements with an id than max, and one without an id
C7_Witness ==
  /\ lpc = "done" /\ lfn \in LibraryListFns /\ lres.ok /\ lraw.kind = "array"
  /\ lmax > 0 /\ Cardinality(WithId) > lmax /\ Len(lres.msgs) = lmax
  /\ \E i \in 1..Len(items) : items[i] = "" /\ i < KthWithId(1)

\* C8 as claimed: the CLI's list command prints at most max messages
C8_CliPrintsAtMostMax ==
  (lpc = "done" /\ lfn = "main::list_messages") => Len(lout) <= lmax

\* C9 as claimed: a script result that is not a string, or not a JSON array of
\* messages, makes the list function return Err
C9_BadResultIsError ==
  (lpc = "done" /\ lfn \in LibraryListFns /\ lraw.kind \in {"nonstring", "badjson"})
    => ~lres.ok

----------------------------------------------------------------------------
(* The Message record and its deserialisation *)

\* JSON values of an object's field: the field is missing, or null, or a number,
\* or a string (v), or an array of strings, or a boolean (v)
Missing == [t |-> "missing"]
JNull == [t |-> "null"]
JNum == [t |-> "num"]
JStr(v) == [t |-> "str", v |-> v]
JArr(v) == [t |-> "arr", v |-> v]
JBool(v) == [t |-> "bool", v |-> v]

StrValues == {JStr("a")}
IdFields == {Missing, JNull, JNum, JStr(""), JStr("a")}
OptFields == {Missing, JNull, JNum} \cup StrValues
LabelFields == {Missing, JNull, JStr("a"), JArr(<<>>), JArr(<<"Work">>)}
BoolFields == {Missing, JNull, JStr("a"), JBool(FALSE), JBool(TRUE)}

JObject(i, s, f, b, p, l, u) ==
  [kind |-> "object", id |-> i, subject |-> s, from |-> f, body |-> b,
   preview |-> p, labels |-> l, isUnread |-> u]

\* the strings handed to serde_json::from_str: the empty string, a string that
\* is not JSON, a JSON array, or a JSON object with some of Message's fields
MessageInputs ==
  {[kind |-> "empty"], [kind |-> "badjson"], [kind |-> "array"]}
  \cup {JObject(i, s, f, b, p, l, u) :
          i \in IdFields, s \in OptFields, f \in OptFields,
          b \in {Missing, JStr("a")}, p \in {Missing, JStr("a")},
          l \in LabelFields, u \in BoolFields}

None == [t |-> "None"]
Some(v) == [t |-> "Some", v |-> v]

\* Option<String>: a missing field and null are None, a string is Some
OptionOk(f) == f.t \in {"missing", "null", "str"}
OptionOf(f) == IF f.t = "str" THEN Some(f.v) ELSE None

\* mutant of MessageFromStr: labels and isUnread without #[serde(default)]
MessageFromStrNoDefault(j) ==
  IF j.kind # "object" THEN [kind |-> "err"]
  ELSE IF j.id.t # "str" THEN [kind |-> "err"]
  ELSE IF ~(OptionOk(j.subject) /\ OptionOk(j.from) /\ OptionOk(j.body) /\ OptionOk(j.preview))
  THEN [kind |-> "err"]
  ELSE IF j.labels.t # "arr" THEN [kind |-> "err"]
  ELSE IF j.isUnread.t # "bool" THEN [kind |-> "err"]
  ELSE [kind |-> "ok", id |-> j.id.v,
        subject |-> OptionOf(j.subject), from |-> OptionOf(j.from),
        body |-> OptionOf(j.body), preview |-> OptionOf(j.preview),
        labels |-> j.labels.v, is_unread |-> j.isUnread.v]

\* serde_json::from_str::<Message>: id is a required string; subject, from, body
\* and preview are Option<String>; labels and isUnread carry #[serde(default)]
MessageFromStr(j) ==
  IF j.kind # "object" THEN [kind |-> "err"]
  ELSE IF j.id.t # "str" THEN [kind |-> "err"]
  ELSE IF ~(OptionOk(j.subject) /\ OptionOk(j.from) /\ OptionOk(j.body) /\ OptionOk(j.preview))
  THEN [kind |-> "err"]
  ELSE IF j.labels.t \notin {"missing", "arr"} THEN [kind |-> "err"]
  ELSE IF j.isUnread.t \notin {"missing", "bool"} THEN [kind |-> "err"]
  ELSE [kind |-> "ok", id |-> j.id.v,
        subject |-> OptionOf(j.subject), from |-> OptionOf(j.from),
        body |-> OptionOf(j.body), preview |-> OptionOf(j.preview),
        labels |-> IF j.labels.t = "missing" THEN <<>> ELSE j.labels.v,
        is_unread |-> IF j.isUnread.t = "missing" THEN FALSE ELSE j.isUnread.v]

\* get_message's last step on its own: the string is parsed into a Message
InitMessage ==
  /\ elem = "absent"
  /\ cats = [m \in Msgs |-> {}]
  /\ categories = <<>>
  /\ menu = NoMenu
  /\ pc = "parse" /\ op = "get_message" /\ id = 0 /\ label = <<>>
  /\ trace = <<>> /\ res = "none" /\ preSet = {} /\ last = NoLast
  /\ lpc = "idle" /\ lfn = "none" /\ lmax = 0 /\ ljson = FALSE
  /\ folder = "inbox" /\ items = <<>>
  /\ lraw = NoRaw /\ lres = NoResult /\ lout = <<>>
  /\ ExtractIdle /\ ConnIdle
  /\ pane = 0 /\ polls = 0 /\ minput \in MessageInputs /\ mparsed = NoMessage

\* serde_json::from_str(&message_str).context("Failed to parse message")?; Ok(message)
ParseMessage ==
  /\ pc = "parse"
  /\ mparsed' = MessageFromStr(minput)
  /\ pc' = "done"
  /\ res' = IF mparsed'.kind = "ok" THEN "Ok" ELSE "Err: Failed to parse message"
  /\ UNCHANGED <<extractVars, pageVars, op, id, label, trace, preSet, last, listVars, connVars,
                 pane, polls, minput>>

NextMessage == ParseMessage

SpecMessage == InitMessage /\ [][NextMessage]_vars

----------------------------------------------------------------------------
(* The per-message operations *)

MenuOps == {"mark_spam", "unspam", "mark_read", "mark_unread", "clear_labels"}
OpenOps == {"get_message", "get_unsubscribe_url", "main::read_message"}
MsgOps == MenuOps \cup OpenOps

\* the error of a menu operation whose script answered 'not_found'
NotFoundError(o) ==
  IF o = "unspam" THEN "Err: Message not found in Junk folder: {id}"
  ELSE "Err: Message not found: {id}"

\* the error of a menu operation whose script found no menu item to click
MenuError(o) ==
  IF o = "mark_spam" THEN "Err: Failed to mark as spam: menu_not_found"
  ELSE IF o = "unspam" THEN "Err: Failed to move to inbox: menu_not_found"
  ELSE IF o = "mark_read" THEN "Err: Failed to mark as read: menu_not_found"
  ELSE IF o = "mark_unread" THEN "Err: Failed to mark as unread: menu_not_found"
  ELSE "Err: Clear categories option not found"

\* the JSON.stringify(...) of get_message's read script: the id is the selected
\* list item's data-convid or ''
ReadScript(shown) ==
  JObject(IF shown = 0 THEN JStr("") ELSE JStr("a"), JStr("a"), JStr("a"), JStr("a"),
          Missing, JArr(<<>>), JBool(FALSE))

InitOps ==
  /\ elem = "absent"
  /\ cats \in [Msgs -> {{}, {Red}}]
  /\ categories = <<Red, Green>>
  /\ menu = NoMenu
  /\ pc = "idle" /\ op = "none" /\ id = 0 /\ label = <<>>
  /\ trace = <<>> /\ res = "none" /\ preSet = {} /\ last = NoLast
  /\ lpc = "idle" /\ lfn = "none" /\ lmax = 0 /\ ljson = FALSE
  /\ folder \in Folders /\ items = <<>>
  /\ lraw = NoRaw /\ lres = NoResult /\ lout = <<>>
  /\ ExtractIdle /\ ConnIdle
  /\ pane \in 0..NumMsgs /\ polls = 0 /\ minput = NoMessage /\ mparsed = NoMessage

\* one of the per-message operations is called (the CLI's read with its --json flag)
OpBegin ==
  /\ pc = "idle"
  /\ \E o \in MsgOps, m \in Msgs, j \in BOOLEAN :
       /\ op' = o /\ id' = m
       /\ ljson' = (j /\ o = "main::read_message")
  /\ elem' \in ElemStates
  /\ pc' = "connect" /\ trace' = <<>> /\ res' = "none"
  /\ minput' = NoMessage /\ mparsed' = NoMessage
  /\ UNCHANGED <<extractVars, cats, categories, menu, label, preSet, last, lpc, lfn, lmax, folder,
                 items, lraw, lres, lout, connVars, pane, polls>>

\* connect_or_start_browser / connect_browser, find_outlook_page
OpConnect ==
  /\ pc = "connect"
  /\ \E ok \in BOOLEAN :
       IF ok
       THEN pc' = (IF op = "unspam" THEN "navigate"
                   ELSE IF op \in OpenOps THEN "click" ELSE "menu_script")
            /\ res' = res
       ELSE Fail("Err: connect")
  /\ UNCHANGED <<extractVars, pageVars, op, id, label, trace, preSet, last, listVars, connVars, msgVars>>

\* unspam: the navigation script, the bail on 'url_parse_failed', the 2 s sleep;
\* the Junk folder's page has its own list, reading pane and no menu
OpNavigate ==
  /\ pc = "navigate"
  /\ IF folder = "nomail"
     THEN /\ Fail("Err: Failed to parse Outlook URL for navigation")
          /\ UNCHANGED <<elem, menu, trace, folder, pane>>
     ELSE /\ \E e \in ElemStates : elem' = e
          /\ menu' = NoMenu /\ folder' = "junkemail" /\ pane' = 0
          /\ trace' = Step("navigate", TRUE)
          /\ pc' = "menu_script" /\ res' = res
  /\ UNCHANGED <<extractVars, cats, categories, op, id, label, preSet, last, lpc, lfn, lmax, ljson,
                 items, lraw, lres, lout, connVars, polls, minput, mparsed>>

\* mutant of OpMenuScript: the script does not return 'not_found' before it
\* dispatches the contextmenu event and looks for the menu item
OpMenuScriptNoLookup ==
  /\ pc = "menu_script"
  /\ \E opened \in BOOLEAN, hasCat \in BOOLEAN, found \in BOOLEAN :
       LET m1 == IF opened THEN [target |-> id, cat |-> hasCat, sub |-> FALSE] ELSE menu
           t1 == Append(trace, Ev("contextmenu", TRUE, <<>>, id))
       IN IF found /\ m1.target # 0
          THEN /\ trace' = Append(t1, Ev("click_menu_item", TRUE, <<>>, m1.target))
               /\ menu' = NoMenu
               /\ cats' = IF op = "clear_labels"
                          THEN [cats EXCEPT ![m1.target] = {}] ELSE cats
               /\ pc' = "done" /\ res' = "Ok"
          ELSE /\ trace' = t1 /\ menu' = m1 /\ cats' = cats
               /\ Fail(MenuError(op))
  /\ UNCHANGED <<extractVars, elem, categories, op, id, label, preSet, last, listVars, connVars, msgVars>>

\* mark_spam, unspam, mark_read, mark_unread, clear_labels: the one script that
\* looks the element up, dispatches contextmenu on it, waits, and clicks the
\* first matching menu item, and the match on its status
OpMenuScript ==
  /\ pc = "menu_script"
  /\ IF elem = "absent"
     THEN /\ Fail(NotFoundError(op))
          /\ UNCHANGED <<menu, cats, trace>>
     ELSE \E opened \in BOOLEAN, hasCat \in BOOLEAN, found \in BOOLEAN :
       LET m1 == IF opened THEN [target |-> id, cat |-> hasCat, sub |-> FALSE] ELSE menu
           t1 == Append(trace, Ev("contextmenu", TRUE, <<>>, id))
       IN IF found /\ m1.target # 0
          THEN /\ trace' = Append(t1, Ev("click_menu_item", TRUE, <<>>, m1.target))
               /\ menu' = NoMenu
               /\ cats' = IF op = "clear_labels"
                          THEN [cats EXCEPT ![m1.target] = {}] ELSE cats
               /\ pc' = "done" /\ res' = "Ok"
          ELSE /\ trace' = t1 /\ menu' = m1 /\ cats' = cats
               /\ Fail(MenuError(op))
  /\ UNCHANGED <<extractVars, elem, categories, op, id, label, preSet, last, listVars, connVars, msgVars>>

\* get_message, get_unsubscribe_url, the CLI's read: the click script; the two
\* library functions bail when it returned false, the CLI drops its result.
\* After the 2 s sleep the reading pane shows the clicked message, or still
\* what it showed
OpClick ==
  /\ pc = "click"
  /\ trace' = Append(trace, Ev("click_message", elem # "absent", <<>>, id))
  /\ IF elem # "absent"
     THEN /\ \E loaded \in BOOLEAN : pane' = IF loaded THEN id ELSE pane
          /\ pc' = "read" /\ res' = res
     ELSE /\ pane' = pane
          /\ IF op = "main::read_message"
             THEN pc' = "read" /\ res' = res
             ELSE Fail("Err: Message not found: {id}")
  /\ UNCHANGED <<extractVars, pageVars, op, id, label, preSet, last, listVars, connVars,
                 polls, minput, mparsed>>

\* the read script over the reading pane, and what is made of its result:
\* get_message parses a Message, get_unsubscribe_url returns the Option, the
\* CLI prints the string (--json) or its parsed fields
OpRead ==
  /\ pc = "read"
  /\ \E delivered \in BOOLEAN :
       /\ minput' = IF delivered THEN ReadScript(pane) ELSE [kind |-> "empty"]
       /\ mparsed' = IF op = "get_message" THEN MessageFromStr(minput') ELSE mparsed
       /\ LET t1 == Append(trace, Ev("read_pane", delivered, <<>>, pane)) IN
            IF op = "get_message"
            THEN /\ trace' = t1
                 /\ res' = IF mparsed'.kind = "ok" THEN "Ok"
                           ELSE "Err: Failed to parse message"
            ELSE IF op = "get_unsubscribe_url"
            THEN trace' = t1 /\ res' = "Ok"
            ELSE IF delivered \/ ljson
            THEN /\ trace' = Append(t1, Ev("print", delivered, <<>>, pane))
                 /\ res' = "Ok"
            ELSE trace' = t1 /\ res' = "Err: parse"
  /\ pc' = "done"
  /\ UNCHANGED <<extractVars, pageVars, op, id, label, preSet, last, listVars, connVars, pane, polls>>

\* the call returns to its caller
OpReturn ==
  /\ pc = "done"
  /\ pc' = "idle" /\ op' = "none" /\ id' = 0
  /\ trace' = <<>> /\ res' = "none" /\ elem' = "absent"
  /\ minput' = NoMessage /\ mparsed' = NoMessage
  /\ ljson' = FALSE
  /\ UNCHANGED <<extractVars, cats, categories, menu, label, preSet, last, lpc, lfn, lmax, folder,
                 items, lraw, lres, lout, connVars, pane, polls>>

\* between two evaluations of a call the page renders or removes the list element
OpPageChange ==
  /\ pc \in {"click", "menu_script"}
  /\ \E e \in ElemStates : elem' = e
  /\ UNCHANGED <<extractVars, cats, categories, menu, clientVars, listVars, connVars, msgVars>>

NextOps ==
  \/ OpBegin \/ OpConnect \/ OpNavigate \/ OpMenuScript \/ OpClick \/ OpRead
  \/ OpReturn \/ OpPageChange

SpecOps == InitOps /\ [][NextOps]_vars

----------------------------------------------------------------------------
(* Properties of the per-message operations *)

ApiMsgOps == MsgOps \ {"main::read_message"}

\* the error messages whose text carries the id argument
NamesId(r) ==
  r \in {"Err: Message not found: {id}", "Err: Message not found in Junk folder: {id}"}

\* a call of one of the seven library operations has ended, it reached the
\* page, and no element with data-convid = id was there
EndedWithoutElement ==
  /\ pc = "done" /\ op \in ApiMsgOps
  /\ res # "Err: connect"
  /\ elem = "absent"

NoMenuClickNoRead ==
  \A i \in 1..Len(trace) : trace[i].ev \notin {"click_menu_item", "read_pane"}

\* C11 as stated: a per-message operation that finds no element with
\* data-convid = id returns an error naming the id, clicks no menu item and
\* does not read the reading pane
C11_NotFoundNamesId ==
  EndedWithoutElement => NamesId(res) /\ NoMenuClickNoRead

\* C11, amended: the same, except that unspam on a page whose URL is not a mail
\* URL returns "Failed to parse Outlook URL for navigation", which does not
\* name the id, before it looks for the element
C11_NotFoundIsError ==
  EndedWithoutElement =>
    /\ NoMenuClickNoRead
    /\ \/ NamesId(res)
       \/ /\ op = "unspam" /\ folder = "nomail"
          /\ res = "Err: Failed to parse Outlook URL for navigation"

C11_Witness ==
  /\ pc = "done" /\ op = "clear_labels" /\ elem = "absent"
  /\ res = "Err: Message not found: {id}"

\* every field that is there has its Rust type
PresentTyped(j) ==
  /\ j.kind = "object"
  /\ j.id.t = "str"
  /\ \A f \in {j.subject, j.from, j.body, j.preview} : f.t \in {"missing", "str"}
  /\ j.labels.t \in {"missing", "arr"}
  /\ j.isUnread.t \in {"missing", "bool"}

\* C12: a Message whose present fields are well typed deserialises, with an
\* empty list for absent labels, false for absent isUnread and None for absent
\* subject/from/body/preview, id being the only field that must be there; and
\* get_message fails with "Failed to parse message" when the string is not a
\* JSON object with an id
C12_MessageDefaults ==
  mparsed # NoMessage =>
    /\ PresentTyped(minput) =>
         /\ mparsed.kind = "ok" /\ res = "Ok"
         /\ mparsed.id = minput.id.v
         /\ minput.labels = Missing => mparsed.labels = <<>>
         /\ minput.isUnread = Missing => mparsed.is_unread = FALSE
         /\ minput.subject = Missing => mparsed.subject = None
         /\ minput.from = Missing => mparsed.from = None
         /\ minput.body = Missing => mparsed.body = None
         /\ minput.preview = Missing => mparsed.preview = None
    /\ (minput.kind # "object" \/ minput.id = Missing) =>
         mparsed.kind = "err" /\ res = "Err: Failed to parse message"

C12_Witness ==
  /\ minput = JObject(JStr("a"), Missing, Missing, Missing, Missing, Missing, Missing)
  /\ mparsed.kind = "ok" /\ mparsed.labels = <<>> /\ mparsed.is_unread = FALSE
  /\ mparsed.subject = None

\* C15 as stated: the CLI's read, when no element with the given id exists,
\* does not print the content of a different message shown in the reading pane
C15_ReadsOnlyRequestedMessage ==
  (pc = "done" /\ op = "main::read_message") =>
    \A i \in 1..Len(trace) :
      (trace[i].ev = "click_message" /\ ~trace[i].ok) =>
        \A k \in 1..Len(trace) :
          trace[k].ev = "print" => trace[k].target \in {0, id}

----------------------------------------------------------------------------
(* connect_or_start_browser *)

\* for attempt in 1..=120
MaxAttempts == 120

InitConnect ==
  /\ elem = "absent"
  /\ cats = [m \in Msgs |-> {}]
  /\ categories = <<>>
  /\ menu = NoMenu
  /\ pc = "idle" /\ op = "none" /\ id = 0 /\ label = <<>>
  /\ trace = <<>> /\ res = "none" /\ preSet = {} /\ last = NoLast
  /\ lpc = "idle" /\ lfn = "none" /\ lmax = 0 /\ ljson = FALSE
  /\ folder = "inbox" /\ items = <<>>
  /\ lraw = NoRaw /\ lres = NoResult /\ lout = <<>>
  /\ ExtractIdle
  /\ cpc = "initial" /\ attempt = 0 /\ running \in BOOLEAN /\ cres = "none"
  /\ MsgIdle

ConnReturn(r) == cpc' = "done" /\ cres' = r

\* if let Ok(browser) = connect_browser(port).await { return Ok(browser); }
InitialAttempt ==
  /\ cpc = "initial"
  /\ \E ok \in BOOLEAN :
       /\ trace' = Step("connect_browser", ok)
       /\ IF ok THEN ConnReturn("Ok") ELSE cpc' = "check" /\ cres' = cres
  /\ UNCHANGED <<extractVars, pageVars, pc, op, id, label, res, preSet, last, listVars,
                 attempt, running, msgVars>>

\* mutant of CheckRunning: a running browser does not stop the function
CheckRunningIgnored ==
  /\ cpc = "check"
  /\ trace' = Step("is_browser_running", running)
  /\ cpc' = "start" /\ cres' = cres
  /\ UNCHANGED <<extractVars, pageVars, pc, op, id, label, res, preSet, last, listVars,
                 attempt, running, msgVars>>

\* if is_browser_running() { return Err(...remote debugging is not enabled...) }
CheckRunning ==
  /\ cpc = "check"
  /\ trace' = Step("is_browser_running", running)
  /\ IF running
     THEN ConnReturn("Err: Browser is running but remote debugging is not enabled")
     ELSE cpc' = "start" /\ cres' = cres
  /\ UNCHANGED <<extractVars, pageVars, pc, op, id, label, res, preSet, last, listVars,
                 attempt, running, msgVars>>

\* start_browser(port)?: no browser executable found, or the spawn failed, or
\* the browser was started; then the loop begins with attempt = 1
StartBrowser ==
  /\ cpc = "start"
  /\ \E ok \in BOOLEAN :
       /\ trace' = Step("start_browser", ok)
       /\ IF ok
          THEN cpc' = "loop" /\ attempt' = 1 /\ cres' = cres
          ELSE ConnReturn("Err: start_browser") /\ attempt' = attempt
  /\ UNCHANGED <<extractVars, pageVars, pc, op, id, label, res, preSet, last, listVars,
                 running, msgVars>>

\* mutant of LastAttempt: the comparison is off by one
LastAttemptOffByOne(a) == a = MaxAttempts + 1

\* if attempt == 120
LastAttempt(a) == a = MaxAttempts

\* mutant of Retry: the loop body without its return on the last attempt
RetryNoGiveUp ==
  /\ cpc = "loop"
  /\ IF attempt > MaxAttempts
     THEN cpc' = "unreachable" /\ UNCHANGED <<trace, attempt, cres>>
     ELSE \E ok \in BOOLEAN :
            /\ trace' = Step("connect_browser", ok)
            /\ IF ok THEN ConnReturn("Ok") /\ attempt' = attempt
               ELSE cpc' = cpc /\ cres' = cres /\ attempt' = attempt + 1
  /\ UNCHANGED <<extractVars, pageVars, pc, op, id, label, res, preSet, last, listVars,
                 running, msgVars>>

\* one turn of the loop over 1..=120: sleep 500 ms, connect_browser, return Ok,
\* or return the error on the last attempt, or go on with the next attempt;
\* when the range is exhausted the loop ends and unreachable!() is next
Retry ==
  /\ cpc = "loop"
  /\ IF attempt > MaxAttempts
     THEN cpc' = "unreachable" /\ UNCHANGED <<trace, attempt, cres>>
     ELSE \E ok \in BOOLEAN :
            /\ trace' = Step("connect_browser", ok)
            /\ IF ok THEN ConnReturn("Ok") /\ attempt' = attempt
               ELSE IF LastAttempt(attempt)
               THEN /\ ConnReturn("Err: Browser started but failed to connect after 60 seconds")
                    /\ attempt' = attempt
               ELSE cpc' = cpc /\ cres' = cres /\ attempt' = attempt + 1
  /\ UNCHANGED <<extractVars, pageVars, pc, op, id, label, res, preSet, last, listVars,
                 running, msgVars>>

NextConnect == InitialAttempt \/ CheckRunning \/ StartBrowser \/ Retry

SpecConnect == InitConnect /\ [][NextConnect]_vars

(* Properties of connect_or_start_browser *)

Calls(e) == {i \in 1..Len(trace) : trace[i].ev = e}
NumCalls(e) == Cardinality(Calls(e))

\* the connect_browser calls of the retry loop that failed
FailedRetries == {i \in Calls("connect_browser") : i > 1 /\ ~trace[i].ok}

GaveUp == "Err: Browser started but failed to connect after 60 seconds"

\* what is left to do: decreases with every step of the function
Rank ==
  IF cpc = "initial" THEN MaxAttempts + 4
  ELSE IF cpc = "check" THEN MaxAttempts + 3
  ELSE IF cpc = "start" THEN MaxAttempts + 2
  ELSE IF cpc = "loop" THEN MaxAttempts + 1 - attempt
  ELSE 0

C13_Counts ==
  /\ NumCalls("connect_browser") <= MaxAttempts + 1
  /\ NumCalls("start_browser") <= 1
  /\ \A i \in Calls("connect_browser") :
       trace[i].ok => i = Len(trace) /\ cpc = "done" /\ cres = "Ok"
  /\ cres = "Ok" => trace[Len(trace)] = Ev("connect_browser", TRUE, <<>>, 0)
  /\ Cardinality(FailedRetries) = MaxAttempts => cpc = "done" /\ cres = GaveUp
  /\ cres = GaveUp => Cardinality(FailedRetries) = MaxAttempts

\* C13: connect_or_start_browser makes at most 121 connection attempts and at
\* most one start_browser call, every step brings it closer to its return, it
\* returns the first successful connection, and it returns "Browser started
\* but failed to connect after 60 seconds" exactly when all 120 retries failed
C13_TerminatesWithin121 ==
  [](C13_Counts) /\ [][Rank' < Rank]_vars

C13_Witness ==
  /\ cpc = "done" /\ cres = "Ok"
  /\ NumCalls("connect_browser") = MaxAttempts + 1

\* C14: a browser is started only after the initial attempt failed and
\* is_browser_running answered false; an initial success returns that connection
\* and starts nothing; an initial failure with a browser running returns the
\* "remote debugging is not enabled" error with no start and no retry
C14_StartsOnlyWhenNoneRunning ==
  /\ NumCalls("start_browser") > 0 =>
       /\ trace[1] = Ev("connect_browser", FALSE, <<>>, 0)
       /\ trace[2] = Ev("is_browser_running", FALSE, <<>>, 0)
       /\ ~running
  /\ (Len(trace) > 0 /\ trace[1].ok) =>
       cpc = "done" /\ cres = "Ok" /\ Len(trace) = 1
  /\ (cpc = "done" /\ Len(trace) > 0 /\ ~trace[1].ok /\ running) =>
       /\ cres = "Err: Browser is running but remote debugging is not enabled"
       /\ NumCalls("start_browser") = 0
       /\ NumCalls("connect_browser") = 1

C14_Witness ==
  /\ cpc = "done" /\ running
  /\ cres = "Err: Browser is running but remote debugging is not enabled"

\* C18: the unreachable!() after the retry loop is never executed
C18_UnreachableNotReached == cpc # "unreachable"

C18_Witness ==
  cpc = "done" /\ attempt = MaxAttempts /\ cres = GaveUp

----------------------------------------------------------------------------
(* Properties of the inbox navigation *)

InboxListFns == {"Client::list_messages", "list::list_messages"}

\* C16 as stated, granting the navigation its 2 s: whenever list_messages
\* returns Ok, the page was showing the inbox when the items were scraped, or
\* another mail folder from which the navigation to the inbox had been started
C16_OkListIsInbox ==
  (lpc = "done" /\ lfn \in InboxListFns /\ lres.ok /\ lraw.kind = "array") =>
    folder \in {"inbox", "junkemail", "other"}

----------------------------------------------------------------------------
(* Properties of the menu add_label works on *)

\* C17 as stated, its consequence: whenever add_label(id, label) clicks a
\* category item, the menu holding the item belongs to message id, so that no
\* other message's category is toggled
C17_ClicksOwnMenu ==
  (op \in LabelOps) =>
    \A i \in Happened("click_category", TRUE) :
      (\E k \in 1..Len(categories) : categories[k] = trace[i].text) =>
        trace[i].target = id

\* C20 as stated: on one and the same DOM, is_category_visible(label) true
\* implies that click_category(label) answers "success", and false implies
\* that it answers "category_not_found"
C20_VisibleIffClickable ==
  (op \in LabelOps) =>
    LET status == ClickCategoryStatus(ClickCategoryScript(label)) IN
      /\ is_category_visible(label) => status = "success"
      /\ ~is_category_visible(label) => status = "category_not_found"

----------------------------------------------------------------------------
(* menu::wait_for_message, poll by poll *)

\* for (let i = 0; i < 50; i++)
MaxPolls == 50

\* mutant of WaitPoll: the loop runs while i <= 50
WaitPollOneMore ==
  /\ pc = "wait"
  /\ IF polls <= MaxPolls
     THEN LET t1 == Append(trace, Ev("poll", elem = "visible", <<>>, polls)) IN
            IF elem = "visible"
            THEN /\ trace' = Append(t1, Ev("wait_for_message", TRUE, <<>>, 0))
                 /\ pc' = "menu_check1" /\ res' = res /\ polls' = polls
            ELSE /\ trace' = t1
                 /\ pc' = pc /\ res' = res /\ polls' = polls + 1
     ELSE /\ trace' = Step("wait_for_message", FALSE)
          /\ Fail("Err: Message not found or not visible")
          /\ polls' = polls
  /\ UNCHANGED <<extractVars, pageVars, op, id, label, preSet, last, listVars, connVars,
                 pane, minput, mparsed>>

\* one turn of wait_for_message's loop: the element is looked up, true is
\* returned when it is there with height > 0, else 100 ms pass and i grows;
\* when i has reached 50 the script returns false and add_label bails
WaitPoll ==
  /\ pc = "wait"
  /\ IF polls < MaxPolls
     THEN LET t1 == Append(trace, Ev("poll", elem = "visible", <<>>, polls)) IN
            IF elem = "visible"
            THEN /\ trace' = Append(t1, Ev("wait_for_message", TRUE, <<>>, 0))
                 /\ pc' = "menu_check1" /\ res' = res /\ polls' = polls
            ELSE /\ trace' = t1
                 /\ pc' = pc /\ res' = res /\ polls' = polls + 1
     ELSE /\ trace' = Step("wait_for_message", FALSE)
          /\ Fail("Err: Message not found or not visible")
          /\ polls' = polls
  /\ UNCHANGED <<extractVars, pageVars, op, id, label, preSet, last, listVars, connVars,
                 pane, minput, mparsed>>

\* during the 100 ms between two polls the page renders or removes the element
WaitPageChange ==
  /\ pc = "wait"
  /\ \E e \in ElemStates : elem' = e
  /\ UNCHANGED <<extractVars, cats, categories, menu, clientVars, listVars, connVars, msgVars>>

\* one call of the client, its wait for the message spelled out
NextWait ==
  \/ Begin \/ Connect \/ WaitPoll \/ WaitPageChange \/ MenuCheck1 \/ GetPosition
  \/ RightClick \/ MenuCheck2 \/ CatCheck1 \/ ButtonCheck \/ ClickCategorize
  \/ CatCheck2 \/ ClickCategory \/ ClickMessage \/ PressKey \/ PageChange

SpecWait == Init /\ [][NextWait]_vars

(* Properties of wait_for_message *)

PollsBefore(k) == {i \in Calls("poll") : i < k}

\* C19: wait_for_message polls at most 50 times, returns true at the first poll
\* that finds the element with height > 0, and returns false after 50 polls
\* that did not; on false add_label fails with "Message not found or not
\* visible" and no right-click and no menu click is made
C19_WaitPollsAtMost50 ==
  /\ NumCalls("poll") <= MaxPolls
  /\ \A k \in 1..Len(trace) :
       /\ (trace[k].ev = "poll" /\ trace[k].ok) =>
            /\ \A i \in PollsBefore(k) : ~trace[i].ok
            /\ k < Len(trace) /\ trace[k + 1] = Ev("wait_for_message", TRUE, <<>>, 0)
       /\ (trace[k].ev = "wait_for_message" /\ trace[k].ok) =>
            k > 1 /\ trace[k - 1].ev = "poll" /\ trace[k - 1].ok
       /\ (trace[k].ev = "wait_for_message" /\ ~trace[k].ok) =>
            /\ Cardinality(PollsBefore(k)) = MaxPolls
            /\ \A i \in PollsBefore(k) : ~trace[i].ok
            /\ k = Len(trace)
            /\ pc = "done" /\ res = "Err: Message not found or not visible"
            /\ \A i \in 1..Len(trace) :
                 trace[i].ev \notin {"right_click", "click_categorize", "click_category"}
  /\ (pc = "wait" /\ polls = MaxPolls) => Cardinality(Calls("poll")) = MaxPolls

C19_Witness ==
  /\ pc = "done" /\ op = "add_label"
  /\ res = "Err: Message not found or not visible"
  /\ NumCalls("poll") = MaxPolls

----------------------------------------------------------------------------
(* The message-list field extraction *)

\* the longest aria-label, in words
MaxWords == 6

\* the alternatives of subjectStarters that are a whole word, and those that
\* want white space after the word; a word of a label is matched as a whole
PlainStarters ==
  {"Re:", "Fw:", "Welcome", "Microsoft", "Amazon", "Google", "Apple", "Thanks",
   "Confirm", "Verify", "Update", "Alert", "Notice", "Reminder", "Invoice",
   "Order", "Shipping", "Delivery"}
SpaceStarters == {"New", "Your", "Action", "Thank"}

\* words that are \d{1,2}:\d{2} or \d{4}-\d{2}-\d{2}
TimeTokens == {"9:30", "12:30", "2024-01-05"}

\* words that are <[^>]+>
Addresses == {"<a@b>"}

\* the words the labels are made of: a plain word (one of knownLabels), a
\* starter (when white space follows it), a time, an address
LabelWords == {"Work", "New", "9:30", "<a@b>"}

\* the white space between two words
Gaps == {<<" ">>, <<" ", " ">>}

RECURSIVE Spread(_, _)
Spread(ws, gap) ==
  IF Len(ws) <= 1 THEN ws ELSE <<ws[1]>> \o gap \o Spread(Tail(ws), gap)

\* the aria-label attributes: words with the same gap between them, with or
\* without the "Unread" prefix
AriaLabels ==
  {(IF u THEN <<"Unread", " ">> ELSE <<>>) \o Spread(ws, gap) :
     u \in BOOLEAN, gap \in Gaps,
     ws \in UNION {[1..n -> LabelWords] : n \in 0..MaxWords}}

BadgeLists == {<<>>, <<"Work">>}

\* the first and the last index of the run of blanks that holds index i
RECURSIVE RunStart(_, _)
RunStart(t, i) == IF i > 1 /\ t[i - 1] = " " THEN RunStart(t, i - 1) ELSE i

RECURSIVE RunEnd(_, _)
RunEnd(t, i) == IF i < Len(t) /\ t[i + 1] = " " THEN RunEnd(t, i + 1) ELSE i

\* ariaLabel.replace(/^Unread\s+/i, '').trim()
StripUnread(a) ==
  Trim(IF Len(a) >= 2 /\ a[1] = "Unread" /\ a[2] = " "
       THEN SubSeq(a, RunEnd(a, 2) + 1, Len(a))
       ELSE a)

\* the words at which /\s+(Re:|...|New\s|...)/ can match
StarterAt(t, j) ==
  /\ j > 1 /\ t[j - 1] = " "
  /\ \/ t[j] \in PlainStarters
     \/ t[j] \in SpaceStarters /\ j < Len(t) /\ t[j + 1] = " "

\* label.match(subjectStarters): the word of the leftmost match (0: no match);
\* match.index is the start of the white space before it
FirstStarter(t) == FirstItem({j \in 1..Len(t) : StarterAt(t, j)})

\* the words at which /\s+\d{1,2}:\d{2}\s+|\s+\d{4}-\d{2}-\d{2}\s+/ can match
TimeAt(t, k) ==
  /\ 1 < k /\ k < Len(t)
  /\ t[k] \in TimeTokens /\ t[k - 1] = " " /\ t[k + 1] = " "

FirstTime(t) == FirstItem({k \in 1..Len(t) : TimeAt(t, k)})

\* String.prototype.split on the time pattern: every match is a cut, and the
\* white space a match has taken is not there for the next one
RECURSIVE SplitTime(_)
SplitTime(t) ==
  LET k == FirstTime(t) IN
    IF k = 0 THEN <<t>>
    ELSE <<SubSeq(t, 1, RunStart(t, k - 1) - 1)>>
         \o SplitTime(SubSeq(t, RunEnd(t, k + 1) + 1, Len(t)))

\* Array.prototype.join(' ')
RECURSIVE JoinBlank(_)
JoinBlank(ps) ==
  IF ps = <<>> THEN <<>>
  ELSE IF Len(ps) = 1 THEN ps[1]
  ELSE ps[1] \o <<" ">> \o JoinBlank(Tail(ps))

NotBlank(w) == w # " "

\* firstPart.split(/\s+/)
WordsOf(t) == SelectSeq(t, NotBlank)

\* words.slice(a, b), a counted from 0
Slice(ws, a, b) == SubSeq(ws, a + 1, IF b < Len(ws) THEN b ELSE Len(ws))

\* words.slice(...).join(' ')
JoinWords(ws) == Spread(ws, <<" ">>)

\* firstPart.match(/^(.+?)<[^>]+>\s*(.*)/): the address of the match (0: none),
\* the first one with something before it
EmailMatch(t) == FirstItem({k \in 2..Len(t) : t[k] \in Addresses})

\* subject.replace(label, ''): the first occurrence goes
RemoveFirst(t, w) ==
  LET i == FirstItem({k \in 1..Len(t) : t[k] = w}) IN
    IF i = 0 THEN t ELSE SubSeq(t, 1, i - 1) \o SubSeq(t, i + 1, Len(t))

\* labels.forEach(label => { subject = subject.replace(label, ''); }); subject.trim()
RECURSIVE CleanSubject(_, _)
CleanSubject(t, ls) ==
  IF ls = <<>> THEN Trim(t) ELSE CleanSubject(RemoveFirst(t, Head(ls)), Tail(ls))

\* ariaLabel.toLowerCase().includes('unread')
IsUnread(a) == \E i \in 1..Len(a) : a[i] = "Unread"

\* from, subject and preview as the script computes them, before the labels
\* are removed from the subject
ExtractFields(a) ==
  LET lbl == StripUnread(a)
      j == FirstStarter(lbl)
  IN IF j # 0
     THEN LET index == RunStart(lbl, j - 1)
              rest == Trim(SubSeq(lbl, index, Len(lbl)))
              timeParts == SplitTime(rest)
          IN [from |-> Trim(SubSeq(lbl, 1, index - 1)),
              subject |-> Trim(timeParts[1]),
              preview |-> Trim(JoinBlank(Tail(timeParts)))]
     ELSE LET timeSplit == SplitTime(lbl) IN
          IF Len(timeSplit) > 1
          THEN LET firstPart == timeSplit[1]
                   e == EmailMatch(firstPart)
                   words == WordsOf(firstPart)
               IN [from |-> IF e # 0 THEN Trim(SubSeq(firstPart, 1, e - 1))
                            ELSE JoinWords(Slice(words, 0, 3)),
                   subject |-> IF e # 0 THEN Trim(SubSeq(firstPart, e + 1, Len(firstPart)))
                               ELSE JoinWords(Slice(words, 3, Len(words))),
                   preview |-> Trim(JoinBlank(Tail(timeSplit)))]
          ELSE [from |-> lbl, subject |-> <<>>, preview |-> <<>>]

InitExtract ==
  /\ elem = "absent"
  /\ cats = [m \in Msgs |-> {}]
  /\ categories = <<>>
  /\ menu = NoMenu
  /\ pc = "idle" /\ op = "none" /\ id = 0 /\ label = <<>>
  /\ trace = <<>> /\ res = "none" /\ preSet = {} /\ last = NoLast
  /\ lpc = "idle" /\ lfn = "none" /\ lmax = 0 /\ ljson = FALSE
  /\ folder = "inbox" /\ items = <<>>
  /\ lraw = NoRaw /\ lres = NoResult /\ lout = <<>>
  /\ ConnIdle /\ MsgIdle
  /\ aria \in AriaLabels /\ badges \in BadgeLists /\ fields = NoFields

\* the script's turn for one [data-convid] element: the fields are taken from
\* its aria-label, and the known labels found in the element are removed
\* from the subject
ExtractItem ==
  /\ fields = NoFields
  /\ LET f == ExtractFields(aria) IN
       fields' = [kind |-> "fields", from |-> f.from, raw_subject |-> f.subject,
                  subject |-> CleanSubject(f.subject, badges),
                  preview |-> f.preview, isUnread |-> IsUnread(aria)]
  /\ UNCHANGED <<pageVars, clientVars, listVars, connVars, msgVars, aria, badges>>

NextExtract == ExtractItem

SpecExtract == InitExtract /\ [][NextExtract]_vars

(* Properties of the field extraction *)

\* the aria-label after removal of a leading "Unread" prefix
LabelOf == StripUnread(aria)

\* what C21 says of a label with a starter: from is the trimmed text before the
\* first starter; the remainder is cut at its first time/date token into
\* subject and preview, or is the subject as a whole
StarterFields ==
  LET j == FirstStarter(LabelOf)
      remainder == SubSeq(LabelOf, j, Len(LabelOf))
      k == FirstTime(remainder)
  IN [from |-> Trim(SubSeq(LabelOf, 1, j - 1)),
      subject |-> IF k = 0 THEN remainder ELSE Trim(SubSeq(remainder, 1, k - 1)),
      preview |-> IF k = 0 THEN <<>>
                  ELSE Trim(SubSeq(remainder, k + 1, Len(remainder)))]

\* C21 as stated: with a starter in the label, from is the trimmed text before
\* the first starter, subject (before label clean-up) the text from the
\* starter up to the first time/date token, and preview the text after that
\* token; with no token, subject is the whole remainder and preview is empty
C21_StarterSplit ==
  (fields # NoFields /\ FirstStarter(LabelOf) # 0) =>
    /\ fields.from = StarterFields.from
    /\ fields.raw_subject = StarterFields.subject
    /\ fields.preview = StarterFields.preview

\* what C22 says of a label with no starter and a time/date token: the text
\* before the first token gives from (the display name before an address, or
\* the first three words) and subject (the rest), the text after it is the preview
FallbackFields ==
  LET k == FirstTime(LabelOf)
      before == Trim(SubSeq(LabelOf, 1, k - 1))
      e == EmailMatch(before)
      words == WordsOf(before)
  IN [from |-> IF e # 0 THEN Trim(SubSeq(before, 1, e - 1))
               ELSE JoinWords(Slice(words, 0, 3)),
      subject |-> IF e # 0 THEN WordsOf(SubSeq(before, e + 1, Len(before)))
                  ELSE Slice(words, 3, Len(words)),
      preview |-> Trim(SubSeq(LabelOf, k + 1, Len(LabelOf)))]

\* C22 as stated: with no starter in the label, from is the whole label and
\* subject and preview are empty when there is no time/date token; otherwise
\* from and subject (word for word) come from the text before the first token
\* and preview is the text after it
C22_FallbackSplit ==
  (fields # NoFields /\ FirstStarter(LabelOf) = 0) =>
    IF FirstTime(LabelOf) = 0
    THEN fields.from = LabelOf /\ fields.raw_subject = <<>> /\ fields.preview = <<>>
    ELSE /\ fields.from = FallbackFields.from
         /\ WordsOf(fields.raw_subject) = FallbackFields.subject
         /\ fields.preview = FallbackFields.preview

====
